---- MODULE Spec2Model ----
(***************************************************************************)
(* DBR (Dentrix Bank Reconciler): the committed deposits and bank          *)
(* transactions of App.tsx, the bank import preview of BankImport.tsx and  *)
(* the month / year computations of ReconciliationView.tsx, the import log *)
(* of importLogService.ts, the day-sheet intake of BulkPdfImport.tsx and   *)
(* the coverage calendar of CalendarStatus.tsx, and the texts the program  *)
(* keeps in localStorage.                                                  *)
(*                                                                         *)
(* Representation.                                                         *)
(*  - A date string "YYYY-MM-DD" is the number of days since 2024-04-01;   *)
(*    localeCompare on such strings is the order of these numbers.  All    *)
(*    dates of the model lie in 2024, so getFullYear() is constant.        *)
(*  - A month is its JavaScript number (April = 3, May = 4, June = 5).     *)
(*  - An amount is a number of cents.  The code computes in IEEE doubles;  *)
(*    where a comparison of the code sits on a rounding boundary the model *)
(*    carries the double result (FloatAboveTolerance).                     *)
(*  - new Date("YYYY-MM-DD") is midnight UTC of that day, while            *)
(*    getMonth() and new Date(y, m, 1) are local time: tz is the UTC       *)
(*    offset in hours of the machine the program runs on.                  *)
(*  - A description is a sequence of one-character strings.                *)
(*  - An empty or absent date string is NoDate; an absent fileType is "".  *)
(*  - A time stamp (importedAt) is kept as its day.                        *)
(*  - A text of localStorage is kept as what it says when it is JSON, a    *)
(*    number as its whole part and its cents; the keys whose text is not   *)
(*    JSON are the set malformed.                                          *)
(***************************************************************************)
EXTENDS Integers, Sequences, FiniteSets, TLC

VARIABLES
    tz,                \* UTC offset (hours) of the local time zone
    currentView,       \* App.tsx: currentView
    deposits,          \* App.tsx: deposits
    bankTransactions,  \* App.tsx: bankTransactions
    viewScope,         \* App.tsx: viewScope
    selectedDate,      \* App.tsx: selectedDate, kept as its local month
    preview,           \* BankImport.tsx: preview
    pendingImportMeta, \* BankImport.tsx: pendingImportMeta, kept as the file (0: null)
    today,             \* the current day: new Date()
    importLog,         \* localStorage dbr_imported_pdfs (BulkPdfImport.tsx: importLog)
    importedDates,     \* App.tsx: importedDates
    pdfs,              \* BulkPdfImport.tsx: pdfs
    startDate,         \* BulkPdfImport.tsx: startDate
    endDate,           \* BulkPdfImport.tsx: endDate
    selectedPdf,       \* BulkPdfImport.tsx: selectedPdf, kept as its path (0: null)
    pageImages,        \* BulkPdfImport.tsx: pageImages, kept as their number
    pdfSelectedDate,   \* BulkPdfImport.tsx: selectedDate
    conflictDate,      \* BulkPdfImport.tsx: conflictDate
    conflictFiles,     \* BulkPdfImport.tsx: conflictFiles
    conflictImages,    \* BulkPdfImport.tsx: conflictImages, kept as the paths that have images
    savedDeposits,     \* localStorage dbr_deposits
    savedTx,           \* localStorage dbr_transactions
    malformed          \* the keys of localStorage whose text JSON.parse rejects

appVars == <<tz, currentView, deposits, bankTransactions, viewScope, selectedDate>>

bankVars == <<preview, pendingImportMeta>>

logVars == <<today, importLog, importedDates>>

bulkVars == <<pdfs, startDate, endDate, selectedPdf, pageImages, pdfSelectedDate,
              conflictDate, conflictFiles, conflictImages>>

storeVars == <<savedDeposits, savedTx, malformed>>

vars == <<appVars, bankVars, logVars, bulkVars, storeVars>>

----------------------------------------------------------------------------
(* Bounds and program constants *)

MaxDeposits == 2

\* the number of midnights a run passes
MaxTicks == 1

ToleranceCents == 2

SettlementDays == 45

GreenBelowCents == 100

HoursPerDay == 24

April == 3

May == 4

June == 5

Months == {April, May, June}

\* US Eastern daylight time and UTC
TimeZones == {-4, 0}

\* '' (an empty date field) and undefined
NoDate == -1

----------------------------------------------------------------------------
(* Calendar of 2024 *)

FirstDay(m) == CASE m = April -> 0 [] m = May -> 30 [] m = June -> 61 [] OTHER -> 91

Date(m, dayOfMonth) == FirstDay(m) + dayOfMonth - 1

\* the day the runs start on, a Monday, and the last day they reach
FirstToday == Date(May, 6)

LastToday == FirstToday + MaxTicks

MonthOfDay(day) == CHOOSE m \in Months : FirstDay(m) <= day /\ day < FirstDay(m + 1)

\* new Date("YYYY-MM-DD").getTime(), in hours: midnight UTC of the day
UtcMidnight(date) == date * HoursPerDay

\* new Date(year, month, 1).getTime(), in hours: local midnight of the 1st
LocalMonthStart(m) == FirstDay(m) * HoursPerDay - tz

\* the local calendar day an instant falls on
LocalDayOf(instant) == (instant + tz) \div HoursPerDay

\* new Date(dateString).getMonth()
GetMonth(date) == MonthOfDay(LocalDayOf(UtcMidnight(date)))

Abs(x) == IF x < 0 THEN -x ELSE x

\* Math.ceil(a / b) for a >= 0, b > 0
Ceil(a, b) == (a + b - 1) \div b

----------------------------------------------------------------------------
(* Sorting: Array.prototype.sort is stable *)

RECURSIVE CountLE(_, _)
CountLE(s, date) ==
    IF s = <<>> THEN 0
    ELSE (IF Head(s).date <= date THEN 1 ELSE 0) + CountLE(Tail(s), date)

RECURSIVE CountGE(_, _)
CountGE(s, date) ==
    IF s = <<>> THEN 0
    ELSE (IF Head(s).date >= date THEN 1 ELSE 0) + CountGE(Tail(s), date)

InsertAt(s, k, x) == SubSeq(s, 1, k) \o <<x>> \o SubSeq(s, k + 1, Len(s))

\* sort((a, b) => a.date.localeCompare(b.date))
RECURSIVE SortAscByDate(_)
SortAscByDate(s) ==
    IF s = <<>> THEN <<>>
    ELSE LET front == SortAscByDate(SubSeq(s, 1, Len(s) - 1))
             x == s[Len(s)]
         IN InsertAt(front, CountLE(front, x.date), x)

\* the rows left in the order they were pushed
SortDescByDate_Unsorted(s) == s

\* sort((a, b) => b.date.localeCompare(a.date))
RECURSIVE SortDescByDate(_)
SortDescByDate(s) ==
    IF s = <<>> THEN <<>>
    ELSE LET front == SortDescByDate(SubSeq(s, 1, Len(s) - 1))
             x == s[Len(s)]
         IN InsertAt(front, CountGE(front, x.date), x)

Range(s) == {s[i] : i \in 1..Len(s)}

----------------------------------------------------------------------------
(* ReconciliationView.tsx: month detail (fuzzy matching) *)

\* Pairs <<transaction amount, deposit total>> of the model's amounts whose
\* difference is exactly 0.02 and whose IEEE double difference is above the
\* double 0.02: 99.99 - 100.01 = -0.020000000000010232
FloatAboveTolerance == {<<9999, 10001>>}

\* the bound taken as exclusive
ExceedsTolerance_Strict(amount, total) == Abs(amount - total) >= ToleranceCents

\* Math.abs(t.amount - deposit.total) > 0.02
ExceedsTolerance(amount, total) ==
    \/ Abs(amount - total) > ToleranceCents
    \/ <<amount, total>> \in FloatAboveTolerance

\* Math.ceil(Math.abs(tDate.getTime() - dDate.getTime()) / (1000*60*60*24))
DiffDays(depositDate, txDate) ==
    Ceil(Abs(UtcMidnight(txDate) - UtcMidnight(depositDate)), HoursPerDay)

\* the check that the transaction is not before the deposit left out
DateCheck_NoOrder(t, deposit) == DiffDays(deposit.date, t.date) <= SettlementDays

\* the date check of the candidate search
DateCheck(t, deposit) ==
    /\ ~(t.date < deposit.date)
    /\ DiffDays(deposit.date, t.date) <= SettlementDays

\* the callback of poolTransactions.find
IsCandidate(t, deposit, matchedTransactionIds) ==
    /\ t.id \notin matchedTransactionIds
    /\ ~ExceedsTolerance(t.amount, deposit.total)
    /\ DateCheck(t, deposit)

\* the last candidate instead of the first
FindCandidate_Last(pool, deposit, matchedTransactionIds) ==
    LET hits == {i \in 1..Len(pool) : /\ pool[i].id \notin matchedTransactionIds
                                       /\ ~ExceedsTolerance(pool[i].amount, deposit.total)
                                       /\ DateCheck(pool[i], deposit)}
    IN IF hits = {} THEN 0 ELSE CHOOSE i \in hits : \A j \in hits : i >= j

\* poolTransactions.find: the index of the first candidate, 0 when there is none
FindCandidate(pool, deposit, matchedTransactionIds) ==
    LET hits == {i \in 1..Len(pool) : IsCandidate(pool[i], deposit, matchedTransactionIds)}
    IN IF hits = {} THEN 0 ELSE CHOOSE i \in hits : \A j \in hits : i <= j

InTargetMonth(date, targetMonth) == GetMonth(date) = targetMonth

\* the deposits of the month taken in the reverse of their order
MonthDeposits_Reversed(deps, targetMonth) ==
    LET Keep(d) == InTargetMonth(d.date, targetMonth)
        sorted == SortAscByDate(SelectSeq(deps, Keep))
    IN [i \in 1..Len(sorted) |-> sorted[Len(sorted) + 1 - i]]

\* deposits.filter(...).sort(...)
MonthDeposits(deps, targetMonth) ==
    LET Keep(d) == InTargetMonth(d.date, targetMonth)
    IN SortAscByDate(SelectSeq(deps, Keep))

\* t.amount > 0 && dt >= new Date(targetYear, targetMonth, 1)
InPool(t, targetMonth) ==
    /\ t.amount > 0
    /\ UtcMidnight(t.date) >= LocalMonthStart(targetMonth)

\* transactions.filter(...).sort(...)
PoolTransactions(txs, targetMonth) ==
    LET Keep(t) == InPool(t, targetMonth)
    IN SortAscByDate(SelectSeq(txs, Keep))

MatchedRow(deposit, candidate) ==
    [date |-> deposit.date,
     dentrixTotal |-> deposit.total,
     bankTotal |-> candidate.amount,
     difference |-> candidate.amount - deposit.total,
     matches |-> TRUE,
     depositRecordIds |-> <<deposit.id>>,
     bankTransactionIds |-> <<candidate.id>>,
     matchNote |-> IF deposit.date # candidate.date THEN <<candidate.date>> ELSE <<>>,
     isOrphan |-> FALSE]

UnmatchedRow(deposit) ==
    [date |-> deposit.date,
     dentrixTotal |-> deposit.total,
     bankTotal |-> 0,
     difference |-> 0 - deposit.total,
     matches |-> FALSE,
     depositRecordIds |-> <<deposit.id>>,
     bankTransactionIds |-> <<>>,
     matchNote |-> <<>>,
     isOrphan |-> FALSE]

OrphanRow(t) ==
    [date |-> t.date,
     dentrixTotal |-> 0,
     bankTotal |-> t.amount,
     difference |-> t.amount,
     matches |-> FALSE,
     depositRecordIds |-> <<>>,
     bankTransactionIds |-> <<t.id>>,
     matchNote |-> <<>>,
     isOrphan |-> TRUE]

\* monthDeposits.forEach(...): the rows and the claimed ids after deposits i..
RECURSIVE MatchDeposits(_, _, _, _)
MatchDeposits(monthDeposits, pool, i, acc) ==
    IF i > Len(monthDeposits) THEN acc
    ELSE LET deposit == monthDeposits[i]
             c == FindCandidate(pool, deposit, acc.matchedTransactionIds)
         IN MatchDeposits(monthDeposits, pool, i + 1,
                IF c # 0
                THEN [rows |-> Append(acc.rows, MatchedRow(deposit, pool[c])),
                      matchedTransactionIds |-> acc.matchedTransactionIds \cup {pool[c].id}]
                ELSE [rows |-> Append(acc.rows, UnmatchedRow(deposit)),
                      matchedTransactionIds |-> acc.matchedTransactionIds])

\* poolTransactions.filter(...) of step B
Orphans(pool, matchedTransactionIds, targetMonth) ==
    LET Keep(t) == t.id \notin matchedTransactionIds /\ InTargetMonth(t.date, targetMonth)
    IN SelectSeq(pool, Keep)

MapOrphanRows(orphans) == [i \in 1..Len(orphans) |-> OrphanRow(orphans[i])]

\* the month detail of (deps, txs) for targetMonth
Reconcile(deps, txs, targetMonth) ==
    LET monthDeposits == MonthDeposits(deps, targetMonth)
        pool == PoolTransactions(txs, targetMonth)
        m == MatchDeposits(monthDeposits, pool, 1, [rows |-> <<>>, matchedTransactionIds |-> {}])
        orphans == Orphans(pool, m.matchedTransactionIds, targetMonth)
    IN SortDescByDate(m.rows \o MapOrphanRows(orphans))

\* the useMemo value shown by the view
reconciliationData ==
    IF viewScope # "month" THEN <<>>
    ELSE Reconcile(deposits, bankTransactions, selectedDate)

----------------------------------------------------------------------------
(* ReconciliationView.tsx: year summary *)

RECURSIVE SumTotal(_)
SumTotal(s) == IF s = <<>> THEN 0 ELSE Head(s).total + SumTotal(Tail(s))

RECURSIVE SumAmount(_)
SumAmount(s) == IF s = <<>> THEN 0 ELSE Head(s).amount + SumAmount(Tail(s))

SummaryDeposits(deps, m) ==
    LET Keep(d) == GetMonth(d.date) = m
    IN SelectSeq(deps, Keep)

SummaryTxs(txs, m) ==
    LET Keep(t) == t.amount > 0 /\ GetMonth(t.date) = m
    IN SelectSeq(txs, Keep)

StatusOf(nDeposits, nTxs, diff) ==
    IF nDeposits = 0 /\ nTxs = 0 THEN "red"
    ELSE IF Abs(diff) < GreenBelowCents THEN "green"
    ELSE "orange"

MonthSummary(deps, txs, m) ==
    LET monthDeposits == SummaryDeposits(deps, m)
        monthTxs == SummaryTxs(txs, m)
        totalDentrix == SumTotal(monthDeposits)
        totalBank == SumAmount(monthTxs)
        diff == totalBank - totalDentrix
    IN [month |-> m,
        totalDentrix |-> totalDentrix,
        totalBank |-> totalBank,
        diff |-> diff,
        status |-> StatusOf(Len(monthDeposits), Len(monthTxs), diff),
        count |-> Len(monthDeposits) + Len(monthTxs)]

yearSummary ==
    IF viewScope # "year" THEN <<>>
    ELSE [i \in 1..Cardinality(Months) |-> MonthSummary(deposits, bankTransactions, April + i - 1)]

----------------------------------------------------------------------------
(* Signatures: App.tsx and BankImport.tsx define the same two functions *)

IsSpace(c) == c \in {" ", "\t"}

ToLowerCase(c) == CASE c = "D" -> "d" [] c = "E" -> "e" [] c = "P" -> "p" [] OTHER -> c

RECURSIVE SkipSpaces(_)
SkipSpaces(s) == IF s # <<>> /\ IsSpace(Head(s)) THEN SkipSpaces(Tail(s)) ELSE s

\* value.replace(/\s+/g, ' ')
RECURSIVE CollapseSpaces(_)
CollapseSpaces(s) ==
    IF s = <<>> THEN <<>>
    ELSE IF IsSpace(Head(s)) THEN <<" ">> \o CollapseSpaces(SkipSpaces(s))
    ELSE <<Head(s)>> \o CollapseSpaces(Tail(s))

RECURSIVE DropTrailingSpaces(_)
DropTrailingSpaces(s) ==
    IF s # <<>> /\ IsSpace(s[Len(s)]) THEN DropTrailingSpaces(SubSeq(s, 1, Len(s) - 1)) ELSE s

\* String.prototype.trim
Trim(s) == DropTrailingSpaces(SkipSpaces(s))

\* the lower-casing left out
normalizeDescription_NoLowerCase(value) == Trim(CollapseSpaces(value))

\* value.replace(/\s+/g, ' ').trim().toLowerCase()
normalizeDescription(value) ==
    LET t == Trim(CollapseSpaces(value))
    IN [i \in 1..Len(t) |-> ToLowerCase(t[i])]

\* amount.toFixed(2) of a whole number of cents: sign, integer part, two decimals
ToFixed2(amount) ==
    [negative |-> amount < 0, whole |-> Abs(amount) \div 100, cents |-> Abs(amount) % 100]

\* `${tx.date}|${normalizeDescription(tx.description)}|${tx.amount.toFixed(2)}`
buildSignature(tx) == <<tx.date, normalizeDescription(tx.description), ToFixed2(tx.amount)>>

Signatures(txs) == {buildSignature(txs[i]) : i \in 1..Len(txs)}

----------------------------------------------------------------------------
(* Bank statements offered to the import: the rows a file parses to *)

Row(date, description, amount) == [date |-> date, description |-> description, amount |-> amount]

BankFiles == <<
    \* a May export with a stray April row, a debit and a zero row
    << Row(Date(May, 1), <<"D", "e", "p">>, 10003),
       Row(Date(May, 1), <<"f", "e", "e">>, -500),
       Row(Date(May, 1), <<"D", "e", "p">>, 0),
       Row(Date(April, 30), <<"D", "e", "p">>, 10000) >>,
    \* a June export that overlaps the May export, out of order, its
    \* descriptions spaced and cased differently
    << Row(Date(June, 16), <<"D", "e", " ", " ", "p">>, 9999),
       Row(Date(June, 16), <<"D", "e", "p">>, 10000),
       Row(Date(June, 15), <<"D", "e", "p">>, 10000),
       Row(Date(May, 1), <<" ", "d", "e", "p", "\t">>, 10003),
       Row(Date(May, 1), <<"D", "E", "P">>, 10003),
       Row(Date(June, 20), <<"D", "e", "p">>, 10000) >>,
    \* a single credit
    << Row(Date(May, 5), <<"D", "e", "p">>, 10002) >>,
    \* a single credit whose date column is empty
    << Row(NoDate, <<"D", "e", "p">>, 10000) >>,
    \* two credits of early May, one cent above and two cents below 100.00
    << Row(Date(May, 2), <<"D", "e", "p">>, 10001),
       Row(Date(May, 3), <<"D", "e", "p">>, 9998) >>
>>

\* the statements of the reconciliation runs and those of the intake runs
ReconcileFiles == {1, 2, 3}

IntakeFiles == {4}

MatchingFiles == {5}

DepositDates == {Date(May, 1), Date(May, 5)}

DepositTotals == {10000, 10001}

\* formatDate: an empty date field becomes the day of the import
formatDate(raw, now) == IF raw = NoDate THEN now ELSE raw

----------------------------------------------------------------------------
(* importLogService.ts *)

EmptyLog == [k \in {} |-> NoDate]

\* log[key] = entry
PutLog(log, key, entry) ==
    [k \in DOMAIN log \cup {key} |-> IF k = key THEN entry ELSE log[k]]

\* `${fileType}:${fileHash}`; the hash of a file is the file
buildImportLogKey(fileType, fileHash) == <<fileType, fileHash>>

getImportedDates(log) ==
    {log[k].date : k \in {j \in DOMAIN log : log[j].fileType \in {"", "day_sheet_pdf"}}} \ {NoDate}

\* the initial state of BulkPdfImport, taken again at each mount
BulkInit ==
    /\ pdfs = <<>>
    /\ startDate = NoDate
    /\ endDate = NoDate
    /\ selectedPdf = 0
    /\ pageImages = 0
    /\ pdfSelectedDate = NoDate
    /\ conflictDate = NoDate
    /\ conflictFiles = <<>>
    /\ conflictImages = {}

BulkUnmount ==
    /\ pdfs' = <<>>
    /\ startDate' = NoDate
    /\ endDate' = NoDate
    /\ selectedPdf' = 0
    /\ pageImages' = 0
    /\ pdfSelectedDate' = NoDate
    /\ conflictDate' = NoDate
    /\ conflictFiles' = <<>>
    /\ conflictImages' = {}

----------------------------------------------------------------------------
(* Identifiers *)

\* crypto.randomUUID(): an id no committed deposit has
FreshDepositId(deps) ==
    CHOOSE n \in 1..(Len(deps) + 1) : /\ \A i \in 1..Len(deps) : deps[i].id # n
                                      /\ \A k \in 1..(n - 1) : \E i \in 1..Len(deps) : deps[i].id = k

\* `bank-${Date.now()}-${idx}`: the id of row idx of an upload.  The time stamps
\* of two uploads differ; the model names the upload by its file, which keeps
\* the ids of committed transactions distinct because a row of a file is
\* committed at most once (its signature is then known)
ParseCSV(f, now) ==
    [idx \in 1..Len(BankFiles[f]) |->
        [id |-> <<f, idx>>,
         date |-> formatDate(BankFiles[f][idx].date, now),
         description |-> BankFiles[f][idx].description,
         amount |-> BankFiles[f][idx].amount]]

RawTransactions(f) == ParseCSV(f, today)

----------------------------------------------------------------------------
(* BankImport.tsx *)

\* transactions.forEach(...) of processRawTransactions
RECURSIVE UniqueFrom(_, _, _, _)
UniqueFrom(transactions, existingSignatures, i, unique) ==
    IF i > Len(transactions) THEN unique
    ELSE LET signature == buildSignature(transactions[i])
         IN UniqueFrom(transactions, existingSignatures, i + 1,
                IF signature \in existingSignatures THEN unique
                ELSE IF signature \in Signatures(unique) THEN unique
                ELSE Append(unique, transactions[i]))

processRawTransactions(rawTransactions, existingTransactions) ==
    UniqueFrom(SortAscByDate(rawTransactions), Signatures(existingTransactions), 1, <<>>)

----------------------------------------------------------------------------
(* App.tsx *)

\* txs.forEach(...) of handleImportBank
RECURSIVE MergeFrom(_, _, _, _)
MergeFrom(txs, i, seen, merged) ==
    IF i > Len(txs) THEN merged
    ELSE LET signature == buildSignature(txs[i])
         IN IF signature \in seen
            THEN MergeFrom(txs, i + 1, seen, merged)
            ELSE MergeFrom(txs, i + 1, seen \cup {signature}, Append(merged, txs[i]))

\* the updater passed to setBankTransactions
ImportBank(prev, txs) == SortAscByDate(MergeFrom(txs, 1, Signatures(prev), prev))

----------------------------------------------------------------------------
(* localStorage *)

DepositsKey == "dbr_deposits"

TransactionsKey == "dbr_transactions"

ImportLogKey == "dbr_imported_pdfs"

StorageKeys == {DepositsKey, TransactionsKey, ImportLogKey}

\* a text that would keep the whole part of a number only
NumberText_WholeOnly(amount) == <<amount \div 100, 0>>

\* the text of a number: its whole part and its cents
NumberText(amount) == <<amount \div 100, amount % 100>>

ParseNumber(text) == text[1] * 100 + text[2]

\* JSON.stringify(deposits)
StringifyDeposits(deps) ==
    [i \in 1..Len(deps) |->
        [id |-> deps[i].id, date |-> deps[i].date, total |-> NumberText(deps[i].total)]]

\* JSON.parse(savedDeposits)
ParseDeposits(text) ==
    [i \in 1..Len(text) |->
        [id |-> text[i].id, date |-> text[i].date, total |-> ParseNumber(text[i].total)]]

\* JSON.stringify(bankTransactions)
StringifyTransactions(txs) ==
    [i \in 1..Len(txs) |->
        [id |-> txs[i].id, date |-> txs[i].date, description |-> txs[i].description,
         amount |-> NumberText(txs[i].amount)]]

\* JSON.parse(savedTx)
ParseTransactions(text) ==
    [i \in 1..Len(text) |->
        [id |-> text[i].id, date |-> text[i].date, description |-> text[i].description,
         amount |-> ParseNumber(text[i].amount)]]

\* the load effect: a text that does not parse leaves the initial state []
LoadDeposits == IF DepositsKey \in malformed THEN <<>> ELSE ParseDeposits(savedDeposits)

\* a load in which one try block would hold both parses
LoadTransactions_SharedTry ==
    IF DepositsKey \in malformed \/ TransactionsKey \in malformed
    THEN <<>>
    ELSE ParseTransactions(savedTx)

LoadTransactions == IF TransactionsKey \in malformed THEN <<>> ELSE ParseTransactions(savedTx)

\* loadImportLog: {} when the text does not parse
loadImportLog == IF ImportLogKey \in malformed THEN EmptyLog ELSE importLog

TypeOK ==
    /\ tz \in TimeZones
    /\ currentView \in {"RECONCILE", "IMPORT_SLIPS", "IMPORT_BANK"}
    /\ viewScope \in {"year", "month"}
    /\ selectedDate \in Months
    /\ Len(deposits) <= MaxDeposits

Init ==
    /\ tz \in TimeZones
    /\ currentView = "RECONCILE"
    /\ deposits = <<>>
    /\ bankTransactions = <<>>
    /\ viewScope = "year"
    /\ selectedDate \in Months
    /\ preview = <<>>
    /\ pendingImportMeta = 0
    /\ today = FirstToday
    /\ importLog = EmptyLog
    /\ importedDates = {}
    /\ BulkInit
    /\ savedDeposits = <<>>
    /\ savedTx = <<>>
    /\ malformed = {}

\* the navigation buttons; the state of BankImport and of BulkPdfImport is
\* lost when they are unmounted
SetCurrentView(view) ==
    /\ view # currentView
    /\ currentView' = view
    /\ preview' = <<>>
    /\ pendingImportMeta' = 0
    /\ BulkUnmount
    /\ UNCHANGED <<tz, deposits, bankTransactions, viewScope, selectedDate, logVars>>
    /\ UNCHANGED storeVars

\* DepositProcessor.handleSave -> handleSaveDeposit
HandleSaveDeposit(date, total) ==
    /\ currentView = "IMPORT_SLIPS"
    /\ Len(deposits) < MaxDeposits
    /\ deposits' = Append(deposits, [id |-> FreshDepositId(deposits), date |-> date, total |-> total])
    /\ currentView' = "RECONCILE"
    /\ selectedDate' = GetMonth(date)
    /\ viewScope' = "month"
    /\ BulkUnmount
    /\ UNCHANGED <<tz, bankTransactions, bankVars, logVars>>
    /\ savedDeposits' = StringifyDeposits(deposits')
    /\ malformed' = malformed \ {DepositsKey}
    /\ UNCHANGED savedTx

\* handleFileUpload / handlePdfUpload -> processRawTransactions
HandleFileUpload(f) ==
    /\ currentView = "IMPORT_BANK"
    /\ preview = <<>>
    /\ preview' = processRawTransactions(RawTransactions(f), bankTransactions)
    /\ pendingImportMeta' = f
    /\ UNCHANGED <<appVars, logVars, bulkVars>>
    /\ UNCHANGED storeVars

\* the Cancel button of the preview
CancelPreview ==
    /\ currentView = "IMPORT_BANK"
    /\ preview # <<>>
    /\ preview' = <<>>
    /\ UNCHANGED <<appVars, pendingImportMeta, logVars, bulkVars>>
    /\ UNCHANGED storeVars

\* handleConfirm -> handleImportBank
HandleConfirm ==
    /\ currentView = "IMPORT_BANK"
    /\ preview # <<>>
    /\ bankTransactions' = ImportBank(bankTransactions, preview)
    /\ currentView' = "RECONCILE"
    /\ selectedDate' = GetMonth(preview[1].date)
    /\ viewScope' = "month"
    /\ importLog' = PutLog(loadImportLog, buildImportLogKey("bank_csv", pendingImportMeta),
                           [date |-> preview[1].date,
                            importedAt |-> today,
                            fileType |-> "bank_csv",
                            recordCount |-> Len(preview)])
    /\ preview' = <<>>
    /\ pendingImportMeta' = 0
    /\ UNCHANGED <<tz, deposits, today, importedDates, bulkVars>>
    /\ savedTx' = StringifyTransactions(bankTransactions')
    /\ malformed' = malformed \ {TransactionsKey, ImportLogKey}
    /\ UNCHANGED savedDeposits

HandleSelectMonth(m) ==
    /\ currentView = "RECONCILE"
    /\ viewScope = "year" \/ m \in {selectedDate - 1, selectedDate + 1}
    /\ selectedDate' = m
    /\ viewScope' = "month"
    /\ UNCHANGED <<tz, currentView, deposits, bankTransactions, bankVars, logVars, bulkVars>>
    /\ UNCHANGED storeVars

HandleBackToYear ==
    /\ currentView = "RECONCILE"
    /\ viewScope = "month"
    /\ viewScope' = "year"
    /\ UNCHANGED <<tz, currentView, deposits, bankTransactions, selectedDate, bankVars, logVars, bulkVars>>
    /\ UNCHANGED storeVars

\* a deletion that the save effect would not follow
HandleDeleteDeposit_NotSaved(id) ==
    /\ currentView = "RECONCILE"
    /\ \E i \in 1..Len(reconciliationData) : id \in Range(reconciliationData[i].depositRecordIds)
    /\ LET Keep(d) == d.id # id IN deposits' = SelectSeq(deposits, Keep)
    /\ UNCHANGED <<tz, currentView, bankTransactions, viewScope, selectedDate, bankVars, logVars, bulkVars>>
    /\ UNCHANGED storeVars

\* the Delete Day Sheet button of a row's details
HandleDeleteDeposit(id) ==
    /\ currentView = "RECONCILE"
    /\ \E i \in 1..Len(reconciliationData) : id \in Range(reconciliationData[i].depositRecordIds)
    /\ LET Keep(d) == d.id # id IN deposits' = SelectSeq(deposits, Keep)
    /\ UNCHANGED <<tz, currentView, bankTransactions, viewScope, selectedDate, bankVars, logVars, bulkVars>>
    /\ savedDeposits' = StringifyDeposits(deposits')
    /\ malformed' = malformed \ {DepositsKey}
    /\ UNCHANGED savedTx

HandleResetData ==
    /\ deposits' = <<>>
    /\ bankTransactions' = <<>>
    /\ importedDates' = {}
    /\ UNCHANGED <<tz, currentView, viewScope, selectedDate, bankVars, today, importLog, bulkVars>>
    /\ savedDeposits' = StringifyDeposits(deposits')
    /\ savedTx' = StringifyTransactions(bankTransactions')
    /\ malformed' = malformed \ {DepositsKey, TransactionsKey}

----------------------------------------------------------------------------
(* Day-sheet PDFs offered to the bulk import.  A file is named by its path; *)
(* nameDate is what parseDateFromFilename finds in its name, mtime the day  *)
(* of its mtimeMs, pdfTextDate what extractPdfDate finds on its first page, *)
(* slipDate and total what the extraction reads from the redacted page.     *)

PdfFile(nameDate, mtime, pdfTextDate, slipDate, total) ==
    [nameDate |-> nameDate, mtime |-> mtime, pdfTextDate |-> pdfTextDate,
     slipDate |-> slipDate, total |-> total]

PdfFiles == <<
    \* two scans of the sheet of Wednesday 2024-05-01; the second carries the
    \* date of the next day in its text
    PdfFile(Date(May, 1), Date(May, 2), NoDate, Date(May, 1), 10000),
    PdfFile(Date(May, 1), Date(May, 2), Date(May, 2), Date(May, 1), 10001),
    \* a scan without a date in its name, last modified on Friday 2024-05-03,
    \* on which the extraction finds no date
    PdfFile(NoDate, Date(May, 3), NoDate, NoDate, 10000)
>>

Paths == 1..Len(PdfFiles)

\* the values the operator types into the From, To and posting date inputs
StartDates == {NoDate, Date(May, 3)}

EndDates == {NoDate}

PostingDates == {NoDate}

\* the longest date range of a run, in days
MaxRangeDays == 3

\* the key of a day sheet in the import log: its path
PathKey(path) == <<"path", path>>

Imported(log, path) == PathKey(path) \in DOMAIN log

----------------------------------------------------------------------------
(* geminiService.ts *)

\* normalizeDate: a missing date becomes the current day
normalizeDate(dateStr) == IF dateStr = NoDate THEN today ELSE dateStr

\* parseDepositSlip on a page of the file
parseDepositSlip(path) ==
    [date |-> normalizeDate(PdfFiles[path].slipDate), total |-> PdfFiles[path].total]

----------------------------------------------------------------------------
(* BulkPdfImport.tsx *)

RECURSIVE CountFileDateGE(_, _)
CountFileDateGE(s, fileDate) ==
    IF s = <<>> THEN 0
    ELSE (IF Head(s).fileDate >= fileDate THEN 1 ELSE 0) + CountFileDateGE(Tail(s), fileDate)

\* sort((a, b) => (b.fileDate || '').localeCompare(a.fileDate || ''))
RECURSIVE SortDescByFileDate(_)
SortDescByFileDate(s) ==
    IF s = <<>> THEN <<>>
    ELSE LET init == SortDescByFileDate(SubSeq(s, 1, Len(s) - 1))
             x == s[Len(s)]
         IN InsertAt(init, CountFileDateGE(init, x.fileDate), x)

\* parseDateFromFilename(e.name) || toIsoDate(new Date(e.mtimeMs))
FileDate(path) ==
    IF PdfFiles[path].nameDate # NoDate THEN PdfFiles[path].nameDate ELSE PdfFiles[path].mtime

\* the PdfEntry handleScan and handleSelectFiles make of a listed file
MapEntry(path) ==
    [path |-> path,
     fileDate |-> FileDate(path),
     pdfDate |-> NoDate,
     status |-> IF Imported(loadImportLog, path) THEN "imported" ELSE "new"]

\* p.pdfDate || p.fileDate
GroupDate(p) == IF p.pdfDate # NoDate THEN p.pdfDate ELSE p.fileDate

\* dateGroups.groups[d] || []
GroupFiles(d) == LET Keep(p) == GroupDate(p) = d IN SelectSeq(pdfs, Keep)

DayStatus(d) ==
    LET files == GroupFiles(d)
        isImported == \E i \in 1..Len(files) : Imported(loadImportLog, files[i].path)
    IN IF Len(files) = 0 THEN "missing"
       ELSE IF isImported THEN "ok"
       ELSE IF Len(files) > 1 THEN "duplicate"
       ELSE "pending"

dateRangeStatus ==
    IF startDate = NoDate \/ endDate = NoDate THEN <<>>
    ELSE [i \in 1..(endDate - startDate + 1) |->
            [date |-> startDate + i - 1,
             status |-> DayStatus(startDate + i - 1),
             files |-> GroupFiles(startDate + i - 1)]]

MinOf(S) == CHOOSE x \in S : \A y \in S : x <= y

MaxOf(S) == CHOOSE x \in S : \A y \in S : x >= y

HandleScan ==
    /\ currentView = "IMPORT_SLIPS"
    /\ LET mapped == [path \in Paths |-> MapEntry(path)]
           dates == {mapped[i].fileDate : i \in Paths}
       IN /\ startDate' = MinOf(dates)
          /\ endDate' = MaxOf(dates)
          /\ pdfs' = SortDescByFileDate(mapped)
    /\ UNCHANGED <<appVars, bankVars, logVars, selectedPdf, pageImages, pdfSelectedDate,
                   conflictDate, conflictFiles, conflictImages>>
    /\ UNCHANGED storeVars

\* the file dialog, the operator choosing one file
HandleSelectFiles(path) ==
    /\ currentView = "IMPORT_SLIPS"
    /\ LET mapped == <<MapEntry(path)>>
           NotListed(m) == \A i \in 1..Len(pdfs) : pdfs[i].path # m.path
           newItems == SelectSeq(mapped, NotListed)
           first == mapped[1].fileDate
       IN /\ pdfs' = SortDescByFileDate(pdfs \o newItems)
          /\ startDate' = IF startDate = NoDate \/ first < startDate THEN first ELSE startDate
          /\ endDate' = IF endDate = NoDate \/ first > endDate THEN first ELSE endDate
    /\ UNCHANGED <<appVars, bankVars, logVars, selectedPdf, pageImages, pdfSelectedDate,
                   conflictDate, conflictFiles, conflictImages>>
    /\ UNCHANGED storeVars

\* the From and To inputs
SetStartDate(value) ==
    /\ currentView = "IMPORT_SLIPS"
    /\ value # startDate
    /\ startDate' = value
    /\ UNCHANGED <<appVars, bankVars, logVars, pdfs, endDate, selectedPdf, pageImages,
                   pdfSelectedDate, conflictDate, conflictFiles, conflictImages>>
    /\ UNCHANGED storeVars

SetEndDate(value) ==
    /\ currentView = "IMPORT_SLIPS"
    /\ value # endDate
    /\ endDate' = value
    /\ UNCHANGED <<appVars, bankVars, logVars, pdfs, startDate, selectedPdf, pageImages,
                   pdfSelectedDate, conflictDate, conflictFiles, conflictImages>>
    /\ UNCHANGED storeVars

\* openPages, the pages of the file rendered (every file has one page)
openPages(entry) ==
    /\ selectedPdf' = entry.path
    /\ pageImages' = 1
    /\ pdfSelectedDate' = GroupDate(entry)

\* startConflictResolution up to its first await
startConflictResolution(date, files) ==
    /\ conflictDate' = date
    /\ conflictFiles' = files
    /\ conflictImages' = {}

IsOpenDay(day) == day.status \in {"pending", "duplicate"}

\* the Import button of a pending day of the range table
ImportPendingDay(i) ==
    /\ currentView = "IMPORT_SLIPS"
    /\ conflictDate = NoDate
    /\ i \in 1..Len(dateRangeStatus)
    /\ dateRangeStatus[i].status = "pending"
    /\ openPages(dateRangeStatus[i].files[1])
    /\ UNCHANGED <<appVars, bankVars, logVars, pdfs, startDate, endDate,
                   conflictDate, conflictFiles, conflictImages>>
    /\ UNCHANGED storeVars

\* the Import button of a file of the loose list, shown when no range is set
ImportLooseFile(i) ==
    /\ currentView = "IMPORT_SLIPS"
    /\ conflictDate = NoDate
    /\ dateRangeStatus = <<>>
    /\ i \in 1..Len(pdfs)
    /\ openPages(pdfs[i])
    /\ UNCHANGED <<appVars, bankVars, logVars, pdfs, startDate, endDate,
                   conflictDate, conflictFiles, conflictImages>>
    /\ UNCHANGED storeVars

\* the Resolve button of a duplicate day of the range table
ResolveDay(i) ==
    /\ currentView = "IMPORT_SLIPS"
    /\ conflictDate = NoDate
    /\ i \in 1..Len(dateRangeStatus)
    /\ dateRangeStatus[i].status = "duplicate"
    /\ startConflictResolution(dateRangeStatus[i].date, dateRangeStatus[i].files)
    /\ UNCHANGED <<appVars, bankVars, logVars, pdfs, startDate, endDate,
                   selectedPdf, pageImages, pdfSelectedDate>>
    /\ UNCHANGED storeVars

\* the Open next pending button
OpenNextPending ==
    /\ currentView = "IMPORT_SLIPS"
    /\ \/ \E i \in 1..Len(dateRangeStatus) : IsOpenDay(dateRangeStatus[i])
       \/ \E i \in 1..Len(pdfs) : pdfs[i].status = "new"
    /\ LET open == {i \in 1..Len(dateRangeStatus) : IsOpenDay(dateRangeStatus[i])}
           loose == {i \in 1..Len(pdfs) : /\ ~Imported(loadImportLog, pdfs[i].path)
                                          /\ (pdfs[i].fileDate = NoDate \/ startDate = NoDate)}
       IN IF open = {}
          THEN /\ IF loose = {}
                  THEN UNCHANGED <<selectedPdf, pageImages, pdfSelectedDate>>
                  ELSE openPages(pdfs[MinOf(loose)])
               /\ UNCHANGED <<conflictDate, conflictFiles, conflictImages>>
          ELSE LET nextDay == dateRangeStatus[MinOf(open)]
               IN IF nextDay.status = "duplicate"
                  THEN /\ startConflictResolution(nextDay.date, nextDay.files)
                       /\ UNCHANGED <<selectedPdf, pageImages, pdfSelectedDate>>
                  ELSE /\ openPages(nextDay.files[1])
                       /\ UNCHANGED <<conflictDate, conflictFiles, conflictImages>>
    /\ UNCHANGED <<appVars, bankVars, logVars, pdfs, startDate, endDate>>
    /\ UNCHANGED storeVars

\* startConflictResolution after its awaits: the previews of the candidates
ConflictImagesLoaded ==
    /\ currentView = "IMPORT_SLIPS"
    /\ conflictDate # NoDate
    /\ conflictImages = {}
    /\ conflictImages' = {conflictFiles[i].path : i \in 1..Len(conflictFiles)}
    /\ UNCHANGED <<appVars, bankVars, logVars, pdfs, startDate, endDate, selectedPdf,
                   pageImages, pdfSelectedDate, conflictDate, conflictFiles>>
    /\ UNCHANGED storeVars

\* a Cancel that would also drop the candidates of the panel from the list
CancelConflict_DropsCandidates ==
    /\ currentView = "IMPORT_SLIPS"
    /\ conflictDate # NoDate
    /\ conflictDate' = NoDate
    /\ conflictFiles' = <<>>
    /\ LET Kept(p) == \A i \in 1..Len(conflictFiles) : conflictFiles[i].path # p.path
       IN pdfs' = SelectSeq(pdfs, Kept)
    /\ UNCHANGED <<appVars, bankVars, logVars, startDate, endDate, selectedPdf,
                   pageImages, pdfSelectedDate, conflictImages>>
    /\ UNCHANGED storeVars

\* the Cancel button of the conflict panel
CancelConflict ==
    /\ currentView = "IMPORT_SLIPS"
    /\ conflictDate # NoDate
    /\ conflictDate' = NoDate
    /\ conflictFiles' = <<>>
    /\ UNCHANGED <<appVars, bankVars, logVars, pdfs, startDate, endDate, selectedPdf,
                   pageImages, pdfSelectedDate, conflictImages>>
    /\ UNCHANGED storeVars

\* Select This Version -> resolveConflict
ResolveConflict(i) ==
    /\ currentView = "IMPORT_SLIPS"
    /\ conflictDate # NoDate
    /\ i \in 1..Len(conflictFiles)
    /\ LET winner == conflictFiles[i]
       IN /\ selectedPdf' = winner.path
          /\ pageImages' = IF winner.path \in conflictImages THEN 1 ELSE 0
          /\ pdfSelectedDate' = GroupDate(winner)
    /\ conflictDate' = NoDate
    /\ conflictFiles' = <<>>
    /\ UNCHANGED <<appVars, bankVars, logVars, pdfs, startDate, endDate, conflictImages>>
    /\ UNCHANGED storeVars

\* the posting date input of the page panel
SetSelectedDate(value) ==
    /\ currentView = "IMPORT_SLIPS"
    /\ selectedPdf # 0
    /\ pageImages > 0
    /\ value # pdfSelectedDate
    /\ pdfSelectedDate' = value
    /\ UNCHANGED <<appVars, bankVars, logVars, pdfs, startDate, endDate, selectedPdf,
                   pageImages, conflictDate, conflictFiles, conflictImages>>
    /\ UNCHANGED storeVars

\* the Close button of the page panel
ClosePages ==
    /\ currentView = "IMPORT_SLIPS"
    /\ selectedPdf # 0
    /\ pageImages > 0
    /\ selectedPdf' = 0
    /\ pageImages' = 0
    /\ UNCHANGED <<appVars, bankVars, logVars, pdfs, startDate, endDate, pdfSelectedDate,
                   conflictDate, conflictFiles, conflictImages>>
    /\ UNCHANGED storeVars

\* selectedDate || result.date
AssignedDate == IF pdfSelectedDate # NoDate THEN pdfSelectedDate
                ELSE parseDepositSlip(selectedPdf).date

\* markImported: the entry written under the path of the file
MarkImported(log, path, assignedDate) ==
    PutLog(log, PathKey(path),
           [date |-> assignedDate, importedAt |-> today, fileType |-> "", recordCount |-> 0])

\* Redact selected page -> Redactor -> handleRedactionComplete, the extraction
\* succeeding: onSave (handleSaveDeposit, which leaves the intake view and so
\* unmounts BulkPdfImport) and markImported (handleImportedDate)
HandleRedactionComplete ==
    /\ currentView = "IMPORT_SLIPS"
    /\ selectedPdf # 0
    /\ pageImages > 0
    /\ Len(deposits) < MaxDeposits
    /\ AssignedDate # NoDate
    /\ deposits' = Append(deposits, [id |-> FreshDepositId(deposits),
                                     date |-> AssignedDate,
                                     total |-> parseDepositSlip(selectedPdf).total])
    /\ currentView' = "RECONCILE"
    /\ selectedDate' = GetMonth(AssignedDate)
    /\ viewScope' = "month"
    /\ importLog' = MarkImported(loadImportLog, selectedPdf, AssignedDate)
    /\ importedDates' = importedDates \cup {AssignedDate}
    /\ BulkUnmount
    /\ UNCHANGED <<tz, bankTransactions, bankVars, today>>
    /\ savedDeposits' = StringifyDeposits(deposits')
    /\ malformed' = malformed \ {DepositsKey, ImportLogKey}
    /\ UNCHANGED savedTx

\* Clear imported log
ClearImported ==
    /\ currentView = "IMPORT_SLIPS"
    /\ importLog' = EmptyLog
    /\ pdfs' = [i \in 1..Len(pdfs) |-> [pdfs[i] EXCEPT !.status = "new"]]
    /\ UNCHANGED <<appVars, bankVars, today, importedDates, startDate, endDate, selectedPdf,
                   pageImages, pdfSelectedDate, conflictDate, conflictFiles, conflictImages>>
    /\ malformed' = malformed \ {ImportLogKey}
    /\ UNCHANGED <<savedDeposits, savedTx>>

----------------------------------------------------------------------------
(* The environment *)

\* midnight passes
Tick ==
    /\ today < LastToday
    /\ today' = today + 1
    /\ UNCHANGED <<appVars, bankVars, importLog, importedDates, bulkVars>>
    /\ UNCHANGED storeVars

\* the program is started again: the load effect takes the state of App.tsx
\* from localStorage, then the save effects write it back
Reload ==
    /\ currentView' = "RECONCILE"
    /\ viewScope' = "year"
    /\ selectedDate' = MonthOfDay(today)
    /\ deposits' = LoadDeposits
    /\ bankTransactions' = LoadTransactions
    /\ importedDates' = getImportedDates(loadImportLog)
    /\ preview' = <<>>
    /\ pendingImportMeta' = 0
    /\ BulkUnmount
    /\ savedDeposits' = StringifyDeposits(deposits')
    /\ savedTx' = StringifyTransactions(bankTransactions')
    /\ malformed' = malformed \ {DepositsKey, TransactionsKey}
    /\ UNCHANGED <<tz, today, importLog>>

\* the text under a key of localStorage is damaged from outside the program,
\* while no intake component holds a copy of the import log
Corrupt(key) ==
    /\ key \notin malformed
    /\ currentView # "IMPORT_SLIPS"
    /\ malformed' = malformed \cup {key}
    /\ UNCHANGED <<appVars, bankVars, logVars, bulkVars, savedDeposits, savedTx>>

\* the reconciliation runs: manual day sheets and the statements of
\* ReconcileFiles, on one day, without a reset of the stored data
Next ==
    \/ \E view \in {"RECONCILE", "IMPORT_SLIPS", "IMPORT_BANK"} : SetCurrentView(view)
    \/ \E date \in DepositDates, total \in DepositTotals : HandleSaveDeposit(date, total)
    \/ \E f \in ReconcileFiles : HandleFileUpload(f)
    \/ CancelPreview
    \/ HandleConfirm
    \/ \E m \in Months : HandleSelectMonth(m)
    \/ HandleBackToYear
    \/ \E id \in 1..MaxDeposits : HandleDeleteDeposit(id)

Spec == Init /\ [][Next]_vars

\* the runs of the two intake specifications start in the time zone of the
\* practice (US Eastern), the month of FirstToday selected
IntakeInit == Init /\ tz = -4 /\ selectedDate = MonthOfDay(FirstToday)

\* the bulk import runs: scanning, the date range, conflicts and commits of
\* day-sheet PDFs on one day, the import log never cleared
BulkNext ==
    \/ \E view \in {"RECONCILE", "IMPORT_SLIPS"} : SetCurrentView(view)
    \/ HandleScan
    \/ \E path \in Paths : HandleSelectFiles(path)
    \/ \E value \in StartDates : SetStartDate(value)
    \/ \E value \in EndDates : SetEndDate(value)
    \/ \E i \in 1..MaxRangeDays : ImportPendingDay(i)
    \/ \E i \in Paths : ImportLooseFile(i)
    \/ \E i \in 1..MaxRangeDays : ResolveDay(i)
    \/ OpenNextPending
    \/ ConflictImagesLoaded
    \/ CancelConflict
    \/ \E i \in Paths : ResolveConflict(i)
    \/ \E value \in PostingDates : SetSelectedDate(value)
    \/ ClosePages
    \/ HandleRedactionComplete

BulkSpec == IntakeInit /\ [][BulkNext]_vars

\* the log runs: manual and scanned day sheets, the statements of IntakeFiles,
\* deletion, reset, clearing of the log and restart, over FirstToday..LastToday
LogNext ==
    \/ \E view \in {"RECONCILE", "IMPORT_SLIPS", "IMPORT_BANK"} : SetCurrentView(view)
    \/ \E date \in DepositDates : HandleSaveDeposit(date, 10000)
    \/ HandleScan
    \/ \E i \in 1..MaxRangeDays : ImportPendingDay(i)
    \/ HandleRedactionComplete
    \/ ClearImported
    \/ \E f \in IntakeFiles : HandleFileUpload(f)
    \/ CancelPreview
    \/ HandleConfirm
    \/ \E id \in 1..MaxDeposits : HandleDeleteDeposit(id)
    \/ HandleResetData
    \/ Reload
    \/ Tick

LogSpec == IntakeInit /\ [][LogNext]_vars

\* the matching runs: manual day sheets of 2024-05-01 and the statement of
\* MatchingFiles, in either time zone
MatchingNext ==
    \/ \E view \in {"RECONCILE", "IMPORT_SLIPS", "IMPORT_BANK"} : SetCurrentView(view)
    \/ \E total \in DepositTotals : HandleSaveDeposit(Date(May, 1), total)
    \/ \E f \in MatchingFiles : HandleFileUpload(f)
    \/ CancelPreview
    \/ HandleConfirm
    \/ \E m \in Months : HandleSelectMonth(m)
    \/ HandleBackToYear
    \/ \E id \in 1..MaxDeposits : HandleDeleteDeposit(id)

MatchingSpec == Init /\ [][MatchingNext]_vars

\* the storage runs: manual and scanned day sheets, the statements of
\* IntakeFiles, deletion, reset, damage to the stored texts and restart, on
\* one day
StoreNext ==
    \/ \E view \in {"RECONCILE", "IMPORT_SLIPS", "IMPORT_BANK"} : SetCurrentView(view)
    \/ \E date \in DepositDates, total \in DepositTotals : HandleSaveDeposit(date, total)
    \/ HandleScan
    \/ \E i \in 1..MaxRangeDays : ImportPendingDay(i)
    \/ HandleRedactionComplete
    \/ \E f \in IntakeFiles : HandleFileUpload(f)
    \/ HandleConfirm
    \/ \E id \in 1..MaxDeposits : HandleDeleteDeposit(id)
    \/ HandleResetData
    \/ \E key \in StorageKeys : Corrupt(key)
    \/ Reload

StoreSpec == IntakeInit /\ [][StoreNext]_vars

----------------------------------------------------------------------------
(* What the claims speak of *)

Rows == reconciliationData

RowIndexes == 1..Len(Rows)

TxOf(id) == CHOOSE t \in Range(bankTransactions) : t.id = id

DepositOf(id) == CHOOSE d \in Range(deposits) : d.id = id

\* the month the date string itself names
CalendarMonth(date) == MonthOfDay(date)

DepositRows(id) == {i \in RowIndexes : id \in Range(Rows[i].depositRecordIds)}

TxRows(id) == {i \in RowIndexes : id \in Range(Rows[i].bankTransactionIds)}

MatchedRows == {i \in RowIndexes : Rows[i].matches}

\* the positive transactions dated from the deposit's day to 45 days after it
InWindow(d) ==
    {t \in Range(bankTransactions) : t.amount > 0 /\ d.date <= t.date /\ t.date <= d.date + 45}

PositionOfDeposit(id) == CHOOSE i \in 1..Len(deposits) : deposits[i].id = id

PositionOfTx(id) == CHOOSE i \in 1..Len(bankTransactions) : bankTransactions[i].id = id

\* ascending by date, equal dates in input order
DepositBefore(a, b) ==
    a.date < b.date \/ (a.date = b.date /\ PositionOfDeposit(a.id) < PositionOfDeposit(b.id))

TxBefore(a, b) ==
    a.date < b.date \/ (a.date = b.date /\ PositionOfTx(a.id) < PositionOfTx(b.id))

\* the transactions the rows of the deposits processed before d have claimed
ClaimedBefore(d) ==
    {Rows[i].bankTransactionIds[1] :
        i \in {j \in MatchedRows : DepositBefore(DepositOf(Rows[j].depositRecordIds[1]), d)}}

\* the transactions still eligible for d when its turn comes
EligibleFor(d) ==
    {t \in InWindow(d) : /\ t.id \notin ClaimedBefore(d)
                         /\ Abs(t.amount - d.total) <= 2
                         /\ <<t.amount, d.total>> \notin FloatAboveTolerance}

\* C1: a matched row pairs a positive transaction with a deposit whose total is
\* at most 0.02 away and carries their difference; a deposit of 100.00 whose
\* only transaction in the window is an unclaimed 100.02 is matched with
\* difference 0.02, and one whose only transaction in the window is 100.03 is
\* unmatched.
C1_ToleranceInclusive ==
    \A i \in RowIndexes :
        LET r == Rows[i] IN
        /\ r.matches =>
            LET t == TxOf(r.bankTransactionIds[1])
                d == DepositOf(r.depositRecordIds[1])
            IN /\ t.amount > 0
               /\ Abs(t.amount - d.total) <= 2
               /\ r.difference = t.amount - d.total
        /\ (r.depositRecordIds # <<>> /\ r.dentrixTotal = 10000) =>
            LET d == DepositOf(r.depositRecordIds[1])
                w == InWindow(d)
            IN /\ (\E t \in w : w = {t} /\ t.amount = 10002 /\ t.id \notin ClaimedBefore(d))
                    => (r.matches /\ r.difference = 2)
               /\ (\E t \in w : w = {t} /\ t.amount = 10003) => ~r.matches

C1_Witness ==
    \E i \in RowIndexes :
        /\ Rows[i].depositRecordIds # <<>>
        /\ Rows[i].dentrixTotal = 10000
        /\ Rows[i].matches
        /\ Rows[i].difference = 2
        /\ Cardinality(InWindow(DepositOf(Rows[i].depositRecordIds[1]))) = 1

\* C2: every matched row pairs a deposit with a transaction dated on or after
\* the deposit and at most 45 days after it.
C2_SettlementWindow ==
    \A i \in MatchedRows :
        LET t == TxOf(Rows[i].bankTransactionIds[1])
            d == DepositOf(Rows[i].depositRecordIds[1])
        IN d.date <= t.date /\ t.date - d.date <= 45

\* a lag of exactly 45 days is matched while a transaction 46 days after
\* another deposit of the view stays unclaimed
C2_Witness ==
    /\ \E i \in MatchedRows :
        TxOf(Rows[i].bankTransactionIds[1]).date - DepositOf(Rows[i].depositRecordIds[1]).date = 45
    /\ \E i \in RowIndexes \ MatchedRows :
        /\ Rows[i].depositRecordIds # <<>>
        /\ \E t \in Range(bankTransactions) :
            /\ t.date - DepositOf(Rows[i].depositRecordIds[1]).date = 46
            /\ t.amount = Rows[i].dentrixTotal
            /\ TxRows(t.id) = {}

\* C3: in a month view every transaction is claimed by at most one deposit and
\* every deposit dated in the target month appears in exactly one row; a matched
\* row links one deposit and one transaction and carries their difference.
C3_OneRowPerDeposit ==
    viewScope = "month" =>
        /\ \A t \in Range(bankTransactions) :
            Cardinality({i \in TxRows(t.id) : Rows[i].depositRecordIds # <<>>}) <= 1
        /\ \A d \in Range(deposits) :
            CalendarMonth(d.date) = selectedDate => Cardinality(DepositRows(d.id)) = 1
        /\ \A i \in MatchedRows :
            /\ Len(Rows[i].depositRecordIds) = 1
            /\ Len(Rows[i].bankTransactionIds) = 1
            /\ Rows[i].difference =
                TxOf(Rows[i].bankTransactionIds[1]).amount - DepositOf(Rows[i].depositRecordIds[1]).total

RowsOfMonth(m) == Reconcile(deposits, bankTransactions, m)

\* C5: a deposit dated in the target month for which no unclaimed eligible
\* transaction exists yields exactly one row, with matches = false, bank total
\* 0, no linked transaction and difference = -total; a transaction of the same
\* amount dated 50 days after the deposit is not paired with it and is an orphan
\* row of the view of the transaction's own month.
C5_UnmatchedRow ==
    viewScope = "month" =>
        \A d \in Range(deposits) :
            CalendarMonth(d.date) = selectedDate =>
                /\ Cardinality(DepositRows(d.id)) = 1
                /\ \A i \in DepositRows(d.id) :
                    EligibleFor(d) = {} =>
                        /\ ~Rows[i].matches
                        /\ Rows[i].bankTotal = 0
                        /\ Rows[i].bankTransactionIds = <<>>
                        /\ Rows[i].difference = 0 - d.total
                /\ \A t \in Range(bankTransactions) :
                    (t.amount = d.total /\ t.date - d.date = 50) =>
                        /\ \A i \in DepositRows(d.id) : t.id \notin Range(Rows[i].bankTransactionIds)
                        /\ \E j \in 1..Len(RowsOfMonth(CalendarMonth(t.date))) :
                            /\ RowsOfMonth(CalendarMonth(t.date))[j].isOrphan
                            /\ RowsOfMonth(CalendarMonth(t.date))[j].bankTransactionIds = <<t.id>>

ClaimedIds == {Rows[i].bankTransactionIds[1] : i \in MatchedRows}

\* C6: the orphan rows of a month view are exactly the positive transactions
\* dated in the target month that no deposit of the view claimed, one row each,
\* with deposit total 0, difference = amount and matches = false.
C6_OrphansExact ==
    viewScope = "month" =>
        /\ \A t \in Range(bankTransactions) :
            (t.amount > 0 /\ CalendarMonth(t.date) = selectedDate /\ t.id \notin ClaimedIds) =>
                /\ Cardinality(TxRows(t.id)) = 1
                /\ \A i \in TxRows(t.id) :
                    /\ Rows[i].isOrphan
                    /\ Rows[i].dentrixTotal = 0
                    /\ Rows[i].difference = t.amount
                    /\ ~Rows[i].matches
        /\ \A i \in RowIndexes :
            Rows[i].isOrphan =>
                LET t == TxOf(Rows[i].bankTransactionIds[1])
                IN t.amount > 0 /\ CalendarMonth(t.date) = selectedDate /\ t.id \notin ClaimedIds

\* C7: the rows reference only deposits dated in the target month and only
\* transactions with a positive amount dated on or after the first day of the
\* target month.
C7_RowsOfTargetMonth ==
    viewScope = "month" =>
        \A i \in RowIndexes :
            /\ \A id \in Range(Rows[i].depositRecordIds) :
                CalendarMonth(DepositOf(id).date) = selectedDate
            /\ \A id \in Range(Rows[i].bankTransactionIds) :
                TxOf(id).amount > 0 /\ TxOf(id).date >= FirstDay(selectedDate)

\* C8: the rows are ordered by date, descending.
C8_RowsDescending ==
    \A i, j \in RowIndexes : i < j => Rows[i].date >= Rows[j].date

\* an orphan row, pushed after the deposit rows, stands before a deposit row
\* of an earlier date
C8_Witness ==
    \E i, j \in RowIndexes :
        i < j /\ Rows[i].isOrphan /\ ~Rows[j].isOrphan /\ Rows[i].date > Rows[j].date

CalendarDeposits(m) ==
    LET Keep(d) == CalendarMonth(d.date) = m IN SelectSeq(deposits, Keep)

CalendarCredits(m) ==
    LET Keep(t) == t.amount > 0 /\ CalendarMonth(t.date) = m IN SelectSeq(bankTransactions, Keep)

\* C9: in the year summary the difference of a month is the total of the
\* month's positive transactions minus the total of the month's deposits; the
\* status is red when the month has neither, otherwise green when the
\* difference is below 1.00 in absolute value, otherwise orange.
C9_MonthStatus ==
    \A i \in 1..Len(yearSummary) :
        LET s == yearSummary[i]
            deps == CalendarDeposits(s.month)
            credits == CalendarCredits(s.month)
            difference == SumAmount(credits) - SumTotal(deps)
        IN /\ s.diff = difference
           /\ s.status \in {"red", "green", "orange"}
           /\ s.status = "red" <=> (deps = <<>> /\ credits = <<>>)
           /\ s.status = "green" <=> (~(deps = <<>> /\ credits = <<>>) /\ Abs(difference) < 100)

\* the words of a description, lower-cased, each with its rank
WordStarts(s) == {i \in 1..Len(s) : ~IsSpace(s[i]) /\ (i = 1 \/ IsSpace(s[i - 1]))}

WordEnd(s, i) == CHOOSE j \in i..Len(s) :
    /\ \A k \in i..j : ~IsSpace(s[k])
    /\ (j = Len(s) \/ IsSpace(s[j + 1]))

Words(s) ==
    {<<Cardinality({k \in WordStarts(s) : k <= i}),
       [k \in 1..(WordEnd(s, i) - i + 1) |-> ToLowerCase(s[i + k - 1])]>> : i \in WordStarts(s)}

\* same date, same words whatever their spacing and case, same amount
SameSignature(a, b) ==
    a.date = b.date /\ Words(a.description) = Words(b.description) /\ a.amount = b.amount

\* C10: no two committed transactions share a signature.
C10_UniqueSignatures ==
    \A i, j \in 1..Len(bankTransactions) :
        i # j => ~SameSignature(bankTransactions[i], bankTransactions[j])

\* of the two rows of the June export that share a signature one is committed,
\* and the May export's row of that signature was dropped as already present
C10_Witness ==
    /\ \E t \in Range(bankTransactions) : t.id = <<2, 4>>
    /\ \E t \in Range(bankTransactions) : t.id = <<1, 2>>
    /\ Cardinality({t \in Range(bankTransactions) : SameSignature(t, BankFiles[2][5])}) = 1

----------------------------------------------------------------------------
(* Re-import of a statement *)

\* the statement was imported before and the transactions it was read as on
\* the day of that import are all still committed
ImportedUnchanged(f) ==
    /\ buildImportLogKey("bank_csv", f) \in DOMAIN importLog
    /\ LET first == ParseCSV(f, importLog[buildImportLogKey("bank_csv", f)].importedAt)
       IN \A i \in 1..Len(first) : buildSignature(first[i]) \in Signatures(bankTransactions)

\* C11: importing an unchanged statement a second time, at any later moment and
\* whatever its rows' date fields hold, commits no new transaction and leaves
\* the reconciliation rows of every month unchanged.
C11_ReimportIdempotent ==
    [][(HandleConfirm /\ ImportedUnchanged(pendingImportMeta)) =>
            /\ bankTransactions' = bankTransactions
            /\ \A m \in Months :
                Reconcile(deposits', bankTransactions', m) = Reconcile(deposits, bankTransactions, m)]_vars

----------------------------------------------------------------------------
(* Same-date conflicts of the bulk import *)

Listed == {pdfs[i].path : i \in 1..Len(pdfs)}

EntryOf(path) == pdfs[CHOOSE i \in 1..Len(pdfs) : pdfs[i].path = path]

\* the listed files that resolve to the date the file resolves to
Candidates(path) == {q \in Listed : GroupDate(EntryOf(q)) = GroupDate(EntryOf(path))}

\* the file is one of several listed files of one date, none of them imported
InConflict(path) ==
    /\ path \in Listed
    /\ Cardinality(Candidates(path)) > 1
    /\ \A q \in Candidates(path) : ~Imported(importLog, q)

\* the operator picks a file: a candidate in the conflict panel, or a file of
\* the loose list
ExplicitPick == (\E i \in Paths : ResolveConflict(i)) \/ (\E i \in Paths : ImportLooseFile(i))

\* C12: a file of a date that several listed files resolve to, none of them
\* imported, is opened for import only by the operator picking it, never by
\* Open next pending or any other step, whether a date range is set or not.
C12_NoAutomaticChoice ==
    [][\A path \in Paths :
        (InConflict(path) /\ selectedPdf # path /\ selectedPdf' = path) => ExplicitPick]_vars


\* the commit of a candidate of a conflict panel, its date still in conflict
CommitOfConflict ==
    /\ HandleRedactionComplete
    /\ selectedPdf \in conflictImages
    /\ InConflict(selectedPdf)

\* C13: when the winner of a conflict is committed, the new DepositRecord
\* carries the data of the chosen file and the import log then has an entry
\* for every candidate file of that date, the chosen one and the rejected ones
C13_LogCoversCandidates ==
    [][CommitOfConflict =>
            /\ deposits'[Len(deposits')].total = PdfFiles[selectedPdf].total
            /\ deposits'[Len(deposits')].date = GroupDate(EntryOf(selectedPdf))
            /\ \A q \in Candidates(selectedPdf) : Imported(importLog', q)]_vars


\* the files of the date of the file that have an entry in the import log
ImportedRivals(path) ==
    {q \in Paths \ {path} : FileDate(q) = FileDate(path) /\ Imported(importLog, q)}

\* C14: once the winner of a conflict is committed, no rejected candidate of
\* that date is committed as a DepositRecord of its own, whatever the operator
\* does short of clearing the import log: a file is never committed while the
\* log holds another file of its date
C14_RejectedStaysOut ==
    [][HandleRedactionComplete => ImportedRivals(selectedPdf) = {}]_vars


PathsOf(files) == {files[i].path : i \in 1..Len(files)}

\* C15: Cancel in the conflict panel, before or after the previews are loaded,
\* changes neither the import log nor the deposits nor the status of any listed
\* file; the date is still a conflict in the range table, which is shown
\* again, and its candidates are the ones the panel was opened with
C15_CancelChangesNothing ==
    [][CancelConflict =>
            /\ importLog' = importLog
            /\ importedDates' = importedDates
            /\ deposits' = deposits
            /\ pdfs' = pdfs
            /\ dateRangeStatus' = dateRangeStatus
            /\ conflictDate' = NoDate
            /\ \A date \in {conflictDate} :
                    /\ DayStatus(date)' = "duplicate"
                    /\ PathsOf(GroupFiles(date))' = PathsOf(conflictFiles)]_vars

\* the conflict of 2024-05-01 cancelled after its previews were loaded: no
\* panel, no file opened since, the day a conflict of the range table
C15_Witness ==
    /\ conflictDate = NoDate
    /\ conflictImages = {1, 2}
    /\ selectedPdf = 0
    /\ pdfSelectedDate = NoDate
    /\ \E i \in 1..Len(dateRangeStatus) : /\ dateRangeStatus[i].date = Date(May, 1)
                                          /\ dateRangeStatus[i].status = "duplicate"


\* the file opened in the page panel has no posting date chosen by the
\* operator and none the extraction can read from its page
DateUnresolvable ==
    /\ selectedPdf # 0
    /\ pdfSelectedDate = NoDate
    /\ PdfFiles[selectedPdf].slipDate = NoDate

\* C16: a day sheet whose date cannot be resolved, the operator having chosen
\* none and the extraction having found none, is never committed: no
\* DepositRecord is added and nothing is logged for it
C16_NoDateNoCommit ==
    [][DateUnresolvable => /\ deposits' = deposits
                           /\ importLog' = importLog
                           /\ importedDates' = importedDates]_vars


\* the date the precedence gives a file: the date in its text, else the date
\* in its name, else the day of its last modification
DateByPrecedence(path) ==
    IF PdfFiles[path].pdfTextDate # NoDate THEN PdfFiles[path].pdfTextDate
    ELSE IF PdfFiles[path].nameDate # NoDate THEN PdfFiles[path].nameDate
    ELSE PdfFiles[path].mtime

\* C17: every listed file is grouped under the date its document carries when
\* it carries one, else under the date in its name, else under the day of its
\* last modification
C17_DatePrecedence ==
    \A i \in 1..Len(pdfs) : GroupDate(pdfs[i]) = DateByPrecedence(pdfs[i].path)


----------------------------------------------------------------------------
(* CalendarStatus.tsx *)

\* new Date(year, month, d): the local midnight of the day, in hours
LocalMidnight(day) == day * HoursPerDay - tz

\* toIso: d.toISOString().split('T')[0], the day in UTC
toIso(day) == LocalMidnight(day) \div HoursPerDay

\* getDay() is 0 or 6; day 0, 2024-04-01, is a Monday
IsWeekend(day) == day % 7 \in {5, 6}

\* dayDate > today, today being the present instant
IsFuture(day) == day > today

\* datesWithSheets of App.tsx
datesWithSheets == importedDates \cup {deposits[i].date : i \in 1..Len(deposits)}

hasSheet(day) == toIso(day) \in datesWithSheets

DaysOfMonth(m) == FirstDay(m)..(FirstDay(m + 1) - 1)

\* the colour of the cell of a day in the month view
DayCell(day) ==
    IF ~IsWeekend(day) /\ ~IsFuture(day)
    THEN (IF hasSheet(day) THEN "green" ELSE "red")
    ELSE "gray"

\* the status of a month in the year view
yearMonths ==
    [m \in Months |->
        LET past == {day \in DaysOfMonth(m) : ~IsFuture(day)}
            importedCount == Cardinality({day \in past : hasSheet(day)})
            missingCount == Cardinality({day \in past : ~hasSheet(day) /\ ~IsWeekend(day)})
        IN IF importedCount = 0 THEN "red"
           ELSE IF missingCount > 0 THEN "orange"
           ELSE "green"]

----------------------------------------------------------------------------

\* a committed deposit or an entry of the import log carries the date
Referenced(day) ==
    \/ \E i \in 1..Len(deposits) : deposits[i].date = day
    \/ \E k \in DOMAIN importLog : importLog[k].date = day

AllDays == UNION {DaysOfMonth(m) : m \in Months}

\* C18: a weekday up to today is shown covered exactly when a committed deposit
\* or an entry of the import log, of whatever file type, carries its date;
\* a weekend day and a future day are never shown missing
C18_CoveredIffReferenced ==
    \A day \in AllDays :
        IF ~IsWeekend(day) /\ ~IsFuture(day)
        THEN (DayCell(day) = "green") <=> Referenced(day)
        ELSE DayCell(day) # "red"


\* the weekdays of a month up to today
WeekdaysToDate(m) == {day \in DaysOfMonth(m) : ~IsWeekend(day) /\ ~IsFuture(day)}

\* C19: in the year view a month is red when none of its weekdays up to today
\* has a sheet, a sheet on a weekend day not counting, green when each of them
\* has one, and orange otherwise
C19_MonthColour ==
    \A m \in Months :
        LET covered == {day \in WeekdaysToDate(m) : hasSheet(day)}
        IN yearMonths[m] = IF covered = {} THEN "red"
                           ELSE IF covered = WeekdaysToDate(m) THEN "green"
                           ELSE "orange"


\* C20: an entry of the import log, once written under a key, is neither
\* changed nor removed by any later operation other than the clearing of the
\* log
C20_LogEntriesImmutable ==
    [][\/ ClearImported
       \/ \A k \in DOMAIN importLog : /\ k \in DOMAIN importLog'
                                      /\ importLog'[k] = importLog[k]]_vars


\* C21: at startup a stored collection whose text does not parse is loaded as
\* empty, each other collection is loaded as it was stored, and the program
\* reaches its first view
C21_MalformedLoadsEmpty ==
    [][Reload =>
            /\ deposits' = IF DepositsKey \in malformed THEN <<>> ELSE deposits
            /\ bankTransactions' = IF TransactionsKey \in malformed THEN <<>>
                                   ELSE bankTransactions
            /\ importedDates' = IF ImportLogKey \in malformed THEN {}
                                ELSE getImportedDates(importLog)
            /\ currentView' = "RECONCILE"]_vars

\* the program started with a damaged import log: the committed deposits are
\* loaded, the imported dates are empty although the log holds a day sheet
C21_Witness ==
    /\ ImportLogKey \in malformed
    /\ viewScope = "year"
    /\ deposits # <<>>
    /\ importedDates = {}
    /\ \E k \in DOMAIN importLog : importLog[k].fileType = ""


\* the step commits a DepositRecord
DepositCommitted == Len(deposits') = Len(deposits) + 1

\* C22: a commit of a day sheet records its DepositRecord and its entry of the
\* import log together, never one without the other: the step that adds a
\* deposit leaves a day-sheet entry of its date in the log, and the step that
\* writes a day-sheet entry adds a deposit
C22_DepositWithLogEntry ==
    [][/\ DepositCommitted =>
            \E k \in DOMAIN importLog' :
                /\ importLog'[k].fileType = ""
                /\ importLog'[k].date = deposits'[Len(deposits')].date
                /\ importLog'[k].importedAt = today
       /\ (\E k \in DOMAIN importLog' : importLog'[k].fileType = "" /\ k \notin DOMAIN importLog)
            => DepositCommitted]_vars


\* the transaction may be matched to the deposit: the amount tolerance, the
\* date order and the settlement window
Eligible(t, deposit) == ~ExceedsTolerance(t.amount, deposit.total) /\ DateCheck(t, deposit)

\* a one-to-one assignment of a candidate of the pool to every deposit
FullAssignmentExists(monthDeposits, pool) ==
    \E f \in [1..Len(monthDeposits) -> 1..Len(pool)] :
        /\ \A i, j \in 1..Len(monthDeposits) : f[i] = f[j] => i = j
        /\ \A i \in 1..Len(monthDeposits) : Eligible(pool[f[i]], monthDeposits[i])

UnmatchedDeposits(rows) == {i \in 1..Len(rows) : ~rows[i].matches /\ ~rows[i].isOrphan}

\* day sheets of 100.00 and then 100.01 for 2024-05-01, credits of 100.01 on
\* 2024-05-02 and of 99.98 on 2024-05-03
GreedyCase ==
    /\ Len(deposits) = 2
    /\ deposits[1] = [id |-> 1, date |-> Date(May, 1), total |-> 10000]
    /\ deposits[2] = [id |-> 2, date |-> Date(May, 1), total |-> 10001]
    /\ Len(bankTransactions) = 2

\* C23: the matching is greedy: for the day sheets and credits of GreedyCase
\* every deposit of the month has a candidate of its own in some one-to-one
\* assignment, yet the month view reports a deposit as unmatched
C23_GreedyNotOptimal ==
    GreedyCase =>
        LET m == GetMonth(Date(May, 1))
        IN /\ FullAssignmentExists(MonthDeposits(deposits, m),
                                   PoolTransactions(bankTransactions, m))
           /\ UnmatchedDeposits(Reconcile(deposits, bankTransactions, m)) # {}

C23_Witness ==
    /\ GreedyCase
    /\ viewScope = "month"
    /\ selectedDate = GetMonth(Date(May, 1))
    /\ UnmatchedDeposits(reconciliationData) # {}


\* the ids of the transactions that the view of the month shows matched to a
\* deposit, and of those it shows as unmatched bank entries
ClaimedIn(m) ==
    LET rows == Reconcile(deposits, bankTransactions, m)
    IN UNION {Range(rows[i].bankTransactionIds) : i \in {j \in 1..Len(rows) : rows[j].matches}}

OrphanIn(m) ==
    LET rows == Reconcile(deposits, bankTransactions, m)
    IN UNION {Range(rows[i].bankTransactionIds) : i \in {j \in 1..Len(rows) : rows[j].isOrphan}}

\* C24: a transaction that a deposit claims in the view of the deposit's
\* month is not an unmatched bank entry in the view of any other month
C24_ClaimedOnceAcrossMonths ==
    \A m1, m2 \in Months : m1 # m2 => ClaimedIn(m1) \cap OrphanIn(m2) = {}


\* C25: the committed deposits hold at most one DepositRecord per calendar
\* date
C25_OneDepositPerDate ==
    \A i, j \in 1..Len(deposits) : deposits[i].date = deposits[j].date => i = j


DepositIds(deps) == {deps[i].id : i \in 1..Len(deps)}

\* the total of the deposit of that id when its date lies in the month
TotalInMonth(id, m) ==
    LET Hit(d) == d.id = id /\ GetMonth(d.date) = m
    IN SumTotal(SelectSeq(deposits, Hit))

\* C26: the deletion of a deposit record removes that record and nothing else:
\* the other deposits and the transactions are unchanged, no row of the view
\* of any month carries it, the year summary of its month loses its total,
\* the stored deposits no longer hold it, and a restart brings back no record
\* that was not in memory
C26_DeletedStaysDeleted ==
    [][/\ \A id \in 1..MaxDeposits :
            HandleDeleteDeposit(id) =>
                /\ LET Keep(d) == d.id # id IN deposits' = SelectSeq(deposits, Keep)
                /\ bankTransactions' = bankTransactions
                /\ \A m \in Months :
                    LET rows == Reconcile(deposits', bankTransactions', m)
                    IN /\ \A i \in 1..Len(rows) : id \notin Range(rows[i].depositRecordIds)
                       /\ MonthSummary(deposits', bankTransactions', m).totalDentrix
                            = MonthSummary(deposits, bankTransactions, m).totalDentrix
                                - TotalInMonth(id, m)
                /\ id \notin DepositIds(LoadDeposits')
       /\ Reload => DepositIds(deposits') \subseteq DepositIds(deposits)]_vars

\* the first of two day sheets deleted and the program started again
C26_Witness ==
    /\ Len(deposits) = 1
    /\ deposits[1].id = 2
    /\ viewScope = "year"


C28_GreenHasNoMismatch ==
    \A m \in Months :
        MonthSummary(deposits, bankTransactions, m).status = "green" =>
            LET rows == Reconcile(deposits, bankTransactions, m)
            IN \A i \in 1..Len(rows) : rows[i].matches


\* C29: the imported dates in memory are always the dates of the day-sheet
\* entries of the stored import log, after every operation, 'Reset All Data'
\* and 'Clear imported log' among them
C29_ImportedDatesMirrorLog ==
    importedDates = getImportedDates(loadImportLog)


\* C30: after day-sheet commits and deposit deletions, every day the coverage
\* calendar shows covered has a committed DepositRecord with its date
C30_CoveredHasDeposit ==
    \A day \in AllDays :
        DayCell(day) = "green" => \E i \in 1..Len(deposits) : deposits[i].date = day

====
